---- MODULE Spec2Model ----
(***************************************************************************)
(* Model of src/minizinc/CLI/driver.py: the command line driver of         *)
(* MiniZinc (CLIDriver.run, CLIDriver.create_process, minizinc_version,    *)
(* check_version) and the type conversion to_python_type.                  *)
(*                                                                         *)
(* Byte strings (stdout, stderr) are sequences of byte values, text        *)
(* strings are TLA+ strings, Python lists and tuples are sequences.        *)
(***************************************************************************)
EXTENDS Integers, Sequences, FiniteSets, TLC

\* ------------------------------------------------------------------ bounds
\* Longest argument list passed to run / create_process.
MaxArgs == 2
\* Number of output fragments the subprocess writes to stdout.
MaxChunks == 1
\* Largest "dim" of a type definition given to to_python_type.
MaxDim == 3

\* ------------------------------------------------------------- generic
Min(S) == CHOOSE x \in S : \A y \in S : x <= y

RECURSIVE Concat(_)
\* Concatenation of a sequence of sequences.
Concat(ss) == IF ss = <<>> THEN <<>> ELSE Head(ss) \o Concat(Tail(ss))

\* All sequences over S of length at most n.
SeqsUpTo(S, n) == UNION {[1..k -> S] : k \in 0..n}

\* ------------------------------------------------------ Python str()
DigitChar == <<"0", "1", "2", "3", "4", "5", "6", "7", "8", "9">>

RECURSIVE IntStr(_)
\* str(n) of a non-negative int: its decimal digits.
IntStr(n) == IF n < 10 THEN DigitChar[n + 1]
             ELSE IntStr(n \div 10) \o DigitChar[(n % 10) + 1]

RECURSIVE JoinStr(_, _)
\* sep.join(parts)
JoinStr(parts, sep) ==
    IF parts = <<>> THEN ""
    ELSE IF Len(parts) = 1 THEN parts[1]
    ELSE parts[1] \o sep \o JoinStr(Tail(parts), sep)

\* str(tuple) of a tuple of ints, as the f-string of check_version prints it:
\* "(2, 5, 0)"; a one-element tuple prints as "(2,)".
TupleStr(t) ==
    IF Len(t) = 1 THEN "(" \o IntStr(t[1]) \o ",)"
    ELSE "(" \o JoinStr([i \in 1..Len(t) |-> IntStr(t[i])], ", ") \o ")"

\* The values this model passes as arguments (List[Any]): a str, an int, a
\* pathlib.Path (anchor and parts) and an object whose __str__ raises.
StrVal(s) == [kind |-> "str", s |-> s, n |-> 0, parts |-> <<>>]
IntVal(n) == [kind |-> "int", s |-> "", n |-> n, parts |-> <<>>]
PathVal(parts) == [kind |-> "path", s |-> "", n |-> 0, parts |-> parts]
BadVal == [kind |-> "bad", s |-> "", n |-> 0, parts |-> <<>>]

\* Whether str(v) returns; str() of an object whose __str__ raises does not.
Printable(v) == v.kind # "bad"

\* str(v): a str is itself, an int its decimal digits, an absolute Path its
\* parts joined by "/" behind the root.
Str(v) ==
    CASE v.kind = "str" -> v.s
      [] v.kind = "int" -> IntStr(v.n)
      [] v.kind = "path" -> "/" \o JoinStr(v.parts, "/")

\* [str(arg) for arg in args]
StrAll(as) == [i \in 1..Len(as) |-> Str(as[i])]

\* ------------------------------------------------------------- bytes
\* The code points of the characters the subprocess output is written in.
Ascii ==
    (" " :> 32) @@ ("." :> 46) @@ ("0" :> 48) @@ ("1" :> 49) @@ ("2" :> 50) @@
    ("3" :> 51) @@ ("5" :> 53) @@ ("6" :> 54) @@ ("9" :> 57) @@ ("e" :> 101) @@
    ("i" :> 105) @@ ("n" :> 110) @@ ("o" :> 111) @@ ("r" :> 114) @@
    ("s" :> 115) @@ ("v" :> 118) @@ ("x" :> 120)

\* str.encode() of a sequence of characters.
Encode(chars) == [i \in 1..Len(chars) |-> Ascii[chars[i]]]

\* A byte that occurs in no UTF-8 encoding.
InvalidByte == <<255>>

\* bytes.decode(): UTF-8. A byte below 128 is the character of that code
\* point; the byte 255 is valid nowhere, and decode raises UnicodeDecodeError.
Decodable(bs) == \A i \in 1..Len(bs) : bs[i] < 128

RECURSIVE Decode(_)
Decode(bs) ==
    IF bs = <<>> THEN ""
    ELSE (CHOOSE c \in DOMAIN Ascii : Ascii[c] = Head(bs)) \o Decode(Tail(bs))

\* ------------------------------------ re.search(rb"version (\d+)\.(\d+)\.(\d+)")
\* The literal prefix of the pattern, b"version ".
VersionPrefix == Encode(<<"v", "e", "r", "s", "i", "o", "n", " ">>)

\* \d of a bytes pattern: an ASCII digit.
IsDigit(b) == b \in Ascii["0"]..Ascii["9"]

\* \. of the pattern.
IsDot(b) == b = Ascii["."]

\* Greedy \d+ from position i: the last position of the longest run of digits
\* that starts at i (i - 1 when s[i] is no digit). What follows \d+ in the
\* pattern is never a digit, so no shorter run can match instead.
DigitsEnd(s, i) ==
    CHOOSE j \in (i - 1)..Len(s) :
        /\ \A k \in i..j : IsDigit(s[k])
        /\ j = Len(s) \/ ~IsDigit(s[j + 1])

\* The positions of the three groups of a match attempt that starts at i.
GroupSpans(s, i) ==
    LET a1 == i + Len(VersionPrefix)
        e1 == DigitsEnd(s, a1)
        a2 == e1 + 2
        e2 == DigitsEnd(s, a2)
        a3 == e2 + 2
        e3 == DigitsEnd(s, a3)
    IN  <<a1, e1, a2, e2, a3, e3>>

\* Whether the pattern matches at position i of s.
MatchAt(s, i) ==
    /\ i + Len(VersionPrefix) <= Len(s)
    /\ SubSeq(s, i, i + Len(VersionPrefix) - 1) = VersionPrefix
    /\ LET a1 == i + Len(VersionPrefix)
           e1 == DigitsEnd(s, a1)
       IN  /\ e1 >= a1
           /\ e1 + 2 <= Len(s)
           /\ IsDot(s[e1 + 1])
           /\ LET a2 == e1 + 2
                  e2 == DigitsEnd(s, a2)
              IN  /\ e2 >= a2
                  /\ e2 + 2 <= Len(s)
                  /\ IsDot(s[e2 + 1])
                  /\ DigitsEnd(s, e2 + 2) >= e2 + 2

\* The match object of re.search: None, or the groups of the leftmost match.
NoMatch == [matched |-> FALSE, groups |-> <<>>]

\* The last match instead of the leftmost one.
FirstMatchPos_Last(s) ==
    CHOOSE i \in 1..Len(s) :
        MatchAt(s, i) /\ \A j \in 1..Len(s) : MatchAt(s, j) => j <= i

FirstMatchPos(s) == Min({i \in 1..Len(s) : MatchAt(s, i)})

Search(s) ==
    IF \E i \in 1..Len(s) : MatchAt(s, i)
    THEN LET g == GroupSpans(s, FirstMatchPos(s))
         IN  [matched |-> TRUE,
              groups |-> <<SubSeq(s, g[1], g[2]), SubSeq(s, g[3], g[4]),
                           SubSeq(s, g[5], g[6])>>]
    ELSE NoMatch

RECURSIVE ParseInt(_)
\* int(b"12"): the value of a run of ASCII digits (leading zeros allowed).
ParseInt(ds) ==
    IF ds = <<>> THEN 0
    ELSE 10 * ParseInt(SubSeq(ds, 1, Len(ds) - 1)) + (ds[Len(ds)] - Ascii["0"])

\* tuple([int(i) for i in match.groups()])
Found(m) == [i \in 1..Len(m.groups) |-> ParseInt(m.groups[i])]

\* Only the major versions are compared.
TupleLess_MajorOnly(a, b) == a[1] < b[1]

\* found < required on tuples: Python compares the first pair of elements
\* that differ, and the lengths when one tuple is a prefix of the other.
TupleLess(a, b) ==
    LET n == IF Len(a) < Len(b) THEN Len(a) ELSE Len(b)
        D == {i \in 1..n : a[i] # b[i]}
    IN  IF D = {} THEN Len(a) < Len(b) ELSE a[Min(D)] < b[Min(D)]

\* The message of the ConfigurationError of check_version, as the pieces of
\* its f-string.
VersionMessage(exe, found, required) ==
    <<"The MiniZinc driver found at '", Str(exe), "' has version ",
      TupleStr(found), ". The minimal required version is ",
      TupleStr(required), ".">>

\* ============================================================== CLIDriver
VARIABLES
    executable,        \* self._executable
    pc,                \* the position of the call in progress
    op,                \* the method the caller invoked
    args,              \* the args parameter
    solver,            \* the solver parameter
    timeout,           \* the timeout parameter
    timeout_flt,       \* the local timeout_flt of run
    conf,              \* the token bound by "with solver.configuration() as conf"
    held,              \* solver configurations entered and not yet exited
    acquired,          \* configurations entered by the call in progress
    released,          \* configurations exited by the call in progress
    cmd,               \* the local cmd / the arguments given to the spawn
    proc,              \* the subprocess
    output,            \* the CompletedProcess subprocess.run returned
    exc,               \* the exception propagating out of the with block
    outcome,           \* how the call ended
    required_version,  \* minizinc.driver.required_version
    found,             \* the local found of check_version
    text,              \* the str minizinc_version returns
    mzn_type,          \* to_python_type: the parameter
    pytype,            \* to_python_type: the local pytype
    dim,               \* to_python_type: the local dim
    warned,            \* to_python_type: warnings issued
    tpc                \* to_python_type: position

driverVars == <<executable, pc, op, args, solver, timeout, timeout_flt, conf,
                held, acquired, released, cmd, proc, output, exc, outcome,
                required_version, found, text>>
typeVars == <<mzn_type, pytype, dim, warned, tpc>>
vars == <<driverVars, typeVars>>

\* ------------------------------------------------------------ input sets
\* The path of the executable the driver was constructed with; it exists.
Executables == {PathVal(<<"usr", "bin", "minizinc">>)}

\* Argument values: a model file name, an int, an object that cannot be printed.
ArgValues == {StrVal("model.mzn"), IntVal(10), BadVal}

ArgLists == SeqsUpTo(ArgValues, MaxArgs)

NoSolver == [id |-> "None"]
Solvers == {[id |-> "gecode"], [id |-> "chuffed"]}

\* datetime.timedelta, and None.
Timedelta(d, sec) == [isNone |-> FALSE, days |-> d, seconds |-> sec]
NoTimeout == [isNone |-> TRUE, days |-> 0, seconds |-> 0]
Timeouts == {NoTimeout, Timedelta(0, 5)}

\* What the subprocess can write to stdout, piece by piece.
Fragments ==
    { Encode(<<"v","e","r","s","i","o","n"," ","2",".","5",".","0">>),
      Encode(<<"v","e","r","s","i","o","n"," ","2",".","6",".","0">>),
      Encode(<<"v","e","r","s","i","o","n"," ","2",".","6",".","1">>),
      Encode(<<"v","e","r","s","i","o","n"," ","2",".","1","0",".","0">>),
      Encode(<<"v","e","r","s","i","o","n"," ","0","2",".","0","6",".","0","0","x">>),
      Encode(<<"v","e","r","s","i","o","n"," ","2",".","6">>),
      Encode(<<"v","e","r","s","i","o","n"," ","2",".","6"," ",
               "v","e","r","s","i","o","n"," ","3",".","0",".","1">>),
      Encode(<<"v","e","r","s","i","o","n"," ","2",".","5",".","0"," ",
               "v","e","r","s","i","o","n"," ","3",".","0",".","0">>),
      Encode(<<"2",".","6",".","0">>),
      InvalidByte }

Outputs == {Concat(c) : c \in SeqsUpTo(Fragments, MaxChunks)}

\* What the subprocess can write to stderr.
Errors == {<<>>, Encode(<<"e","r","r","o","r">>)}

\* Exit statuses: success, failure, death by a signal.
ExitCodes == {0, 1, -11}

\* Values minizinc.driver.required_version can have.
RequiredVersions == {<<2, 6, 0>>, <<2, 9, 0>>}

\* ------------------------------------------------------------ values
NoExc == [type |-> "None", msg |-> <<>>, stderr |-> <<>>, cmd |-> <<>>,
          timeout |-> 0]

Exc(type) == [NoExc EXCEPT !.type = type]

\* subprocess.TimeoutExpired(cmd, timeout), as subprocess.run raises it.
TimeoutExpired(c, t) == [NoExc EXCEPT !.type = "TimeoutExpired", !.cmd = c,
                                      !.timeout = t]

\* minizinc.error.parse_error(stderr): an error built from the stderr bytes.
parse_error(stderr) == [NoExc EXCEPT !.type = "MiniZincError",
                                     !.stderr = stderr]

ConfigurationError(msg) == [NoExc EXCEPT !.type = "ConfigurationError",
                                         !.msg = msg]

NoProc == [status |-> "none", args |-> <<>>, returncode |-> 0,
           stdout |-> <<>>, stderr |-> <<>>, killed |-> FALSE]

NoOutput == [isNone |-> TRUE, args |-> <<>>, returncode |-> 0,
             stdout |-> <<>>, stderr |-> <<>>]

\* The CompletedProcess of a subprocess that exited.
CompletedProcess(p) == [isNone |-> FALSE, args |-> p.args,
                        returncode |-> p.returncode, stdout |-> p.stdout,
                        stderr |-> p.stderr]

NoOutcome == [kind |-> "none", exc |-> NoExc, ret |-> "none"]
Raised(e) == [kind |-> "raise", exc |-> e, ret |-> "none"]
Returned(what) == [kind |-> "return", exc |-> NoExc, ret |-> what]

NoConf == ""

\* The token solver.configuration() yields: the path of the solver
\* configuration file written for the solver.
configuration(s) == s.id \o ".msc"

NoTimeoutFlt == [isNone |-> TRUE, value |-> 0]

\* timeout_flt: None, or timeout.total_seconds().
TimeoutFlt(t) ==
    IF t.isNone THEN NoTimeoutFlt
    ELSE [isNone |-> FALSE, value |-> t.days * 86400 + t.seconds]

\* The command of run.
RunCmd(exe, s, c, as) ==
    IF s = NoSolver
    THEN <<Str(exe), "--allow-multiple-assignments">> \o StrAll(as)
    ELSE <<Str(exe), "--solver", c, "--allow-multiple-assignments">>
         \o StrAll(as)

\* create_process with the solver flag behind the fixed flag.
CreateProcessArgs_Reordered(exe, s, c, as) ==
    IF s = NoSolver
    THEN <<Str(exe), "--allow-multiple-assignments">> \o StrAll(as)
    ELSE <<Str(exe), "--allow-multiple-assignments", "--solver", c>>
         \o StrAll(as)

\* The program and arguments create_process gives to create_subprocess_exec.
CreateProcessArgs(exe, s, c, as) ==
    IF s = NoSolver
    THEN <<Str(exe), "--allow-multiple-assignments">> \o StrAll(as)
    ELSE <<Str(exe), "--solver", c, "--allow-multiple-assignments">>
         \o StrAll(as)

\* The version query with the flag misspelt.
VersionArgs_Short == <<StrVal("-version")>>

\* The argument list of the version query.
VersionArgs == <<StrVal("--version")>>

\* Only an exit status of 1 counts as a failure.
Failed_OnlyOne(o) == o.returncode = 1

\* if output.returncode != 0
Failed(o) == o.returncode # 0


\* ------------------------------------------------------------ Python types
\* typing objects: a class, or a generic alias of its arguments.
Class(name) == [ctor |-> name, args |-> <<>>]
SetOf(t) == [ctor |-> "Set", args |-> <<t>>]
ListOf(t) == [ctor |-> "List", args |-> <<t>>]
UnionOf(a, b) == [ctor |-> "Union", args |-> <<a, b>>]
NoType == Class("unbound")

\* dict.get(key, default)
Get(d, key, default) == IF key \in DOMAIN d THEN d[key] ELSE default

\* The base types MiniZinc reports, and one that to_python_type does not know.
BaseTypes == {"bool", "float", "int", "string"}

\* Type definitions as minizinc --model-interface-only prints them: "type",
\* and optionally "set" and "dim".
TypeDefs ==
    UNION { { [type |-> b],
              [type |-> b, set |-> s],
              [type |-> b, dim |-> d],
              [type |-> b, set |-> s, dim |-> d] } :
            <<b, s, d>> \in BaseTypes \X BOOLEAN \X (0..MaxDim) }

\* ------------------------------------------------------------ Init
DriverInit ==
    /\ executable \in Executables
    /\ pc = "idle"
    /\ op = "none"
    /\ args = <<>>
    /\ solver = NoSolver
    /\ timeout = NoTimeout
    /\ timeout_flt = NoTimeoutFlt
    /\ conf = NoConf
    /\ held = 0
    /\ acquired = 0
    /\ released = 0
    /\ cmd = <<>>
    /\ proc = NoProc
    /\ output = NoOutput
    /\ exc = NoExc
    /\ outcome = NoOutcome
    /\ required_version = <<>>
    /\ found = <<>>
    /\ text = ""

\* No call of to_python_type is in progress.
TypeIdle ==
    /\ mzn_type = [type |-> "int"]
    /\ pytype = NoType
    /\ dim = 0
    /\ warned = 0
    /\ tpc = "idle"

Init == DriverInit /\ TypeIdle

\* ------------------------------------------------------------ calls
\* The caller invokes driver.run(a, s, t).
CallRun(a, s, t) ==
    /\ pc = "idle"
    /\ op' = "run"
    /\ args' = a
    /\ solver' = s
    /\ timeout' = t
    /\ pc' = "run_start"
    /\ UNCHANGED <<executable, timeout_flt, conf, held, acquired, released,
                   cmd, proc, output, exc, outcome, required_version, found,
                   text>>
    /\ UNCHANGED typeVars

\* The caller awaits driver.create_process(a, s).
CallCreateProcess(a, s) ==
    /\ pc = "idle"
    /\ op' = "create_process"
    /\ args' = a
    /\ solver' = s
    /\ pc' = "cp_start"
    /\ UNCHANGED <<executable, timeout, timeout_flt, conf, held, acquired,
                   released, cmd, proc, output, exc, outcome,
                   required_version, found, text>>
    /\ UNCHANGED typeVars

\* The caller reads driver.minizinc_version: self.run(["--version"]).
CallMinizincVersion ==
    /\ pc = "idle"
    /\ op' = "minizinc_version"
    /\ args' = VersionArgs
    /\ solver' = NoSolver
    /\ timeout' = NoTimeout
    /\ pc' = "run_start"
    /\ UNCHANGED <<executable, timeout_flt, conf, held, acquired, released,
                   cmd, proc, output, exc, outcome, required_version, found,
                   text>>
    /\ UNCHANGED typeVars

\* The caller invokes driver.check_version(): self.run(["--version"]), with
\* minizinc.driver.required_version being r.
CallCheckVersion(r) ==
    /\ pc = "idle"
    /\ op' = "check_version"
    /\ args' = VersionArgs
    /\ solver' = NoSolver
    /\ timeout' = NoTimeout
    /\ required_version' = r
    /\ pc' = "run_start"
    /\ UNCHANGED <<executable, timeout_flt, conf, held, acquired, released,
                   cmd, proc, output, exc, outcome, found, text>>
    /\ UNCHANGED typeVars

\* ------------------------------------------------------------ run
\* The configuration is exited after the block, and not when the block raises.
ReleasesOnLeave_NoFinally(s, e) == s # NoSolver /\ e = NoExc

\* Whether leaving the with block exits the solver configuration.
ReleasesOnLeave(s, e) == s # NoSolver

\* run: timeout_flt is computed and, with a solver, the configuration entered.
RunStart ==
    /\ pc = "run_start"
    /\ timeout_flt' = TimeoutFlt(timeout)
    /\ IF solver = NoSolver
       THEN UNCHANGED <<conf, held, acquired>>
       ELSE /\ conf' = configuration(solver)
            /\ held' = held + 1
            /\ acquired' = acquired + 1
    /\ pc' = "run_build"
    /\ UNCHANGED <<executable, op, args, solver, timeout, released, cmd, proc,
                   output, exc, outcome, required_version, found, text>>
    /\ UNCHANGED typeVars

\* run with the with block closed right behind the construction of cmd: the
\* configuration is exited before the subprocess is started.
RunBuild_ReleaseEarly ==
    /\ pc = "run_build"
    /\ IF \A i \in 1..Len(args) : Printable(args[i])
       THEN /\ cmd' = RunCmd(executable, solver, conf, args)
            /\ pc' = "run_spawn"
            /\ UNCHANGED exc
       ELSE /\ exc' = Exc("Exception")
            /\ pc' = "run_leave"
            /\ UNCHANGED cmd
    /\ IF solver # NoSolver
       THEN /\ conf' = NoConf
            /\ held' = held - 1
            /\ released' = released + 1
       ELSE UNCHANGED <<conf, held, released>>
    /\ UNCHANGED <<executable, op, args, solver, timeout, timeout_flt,
                   acquired, proc, output, outcome, required_version, found,
                   text>>
    /\ UNCHANGED typeVars

\* run: cmd is built; str(arg) of an unprintable argument raises.
RunBuild ==
    /\ pc = "run_build"
    /\ IF \A i \in 1..Len(args) : Printable(args[i])
       THEN /\ cmd' = RunCmd(executable, solver, conf, args)
            /\ pc' = "run_spawn"
            /\ UNCHANGED exc
       ELSE /\ exc' = Exc("Exception")
            /\ pc' = "run_leave"
            /\ UNCHANGED cmd
    /\ UNCHANGED <<executable, op, args, solver, timeout, timeout_flt, conf,
                   held, acquired, released, proc, output, outcome,
                   required_version, found, text>>
    /\ UNCHANGED typeVars

\* run: subprocess.run starts the subprocess, or fails to (OSError).
RunSpawn ==
    /\ pc = "run_spawn"
    /\ \/ /\ proc' = [NoProc EXCEPT !.status = "running", !.args = cmd]
          /\ pc' = "run_wait"
          /\ UNCHANGED exc
       \/ /\ exc' = Exc("OSError")
          /\ pc' = "run_leave"
          /\ UNCHANGED proc
    /\ UNCHANGED <<executable, op, args, solver, timeout, timeout_flt, conf,
                   held, acquired, released, cmd, output, outcome,
                   required_version, found, text>>
    /\ UNCHANGED typeVars

\* The subprocess exits with status rc, having written out and err.
ProcExit(rc, out, err) ==
    /\ proc.status = "running"
    /\ proc' = [proc EXCEPT !.status = "exited", !.returncode = rc,
                            !.stdout = out, !.stderr = err]
    /\ UNCHANGED <<executable, pc, op, args, solver, timeout, timeout_flt,
                   conf, held, acquired, released, cmd, output, exc, outcome,
                   required_version, found, text>>
    /\ UNCHANGED typeVars

\* run: subprocess.run returns the CompletedProcess of the exited subprocess.
RunWaitReturn ==
    /\ pc = "run_wait"
    /\ proc.status = "exited"
    /\ output' = CompletedProcess(proc)
    /\ pc' = "run_leave"
    /\ UNCHANGED <<executable, op, args, solver, timeout, timeout_flt, conf,
                   held, acquired, released, cmd, proc, exc, outcome,
                   required_version, found, text>>
    /\ UNCHANGED typeVars

\* A missing timeout is passed on as a timeout of zero.
CanTimeOut_Always(tf) == TRUE

\* Whether subprocess.run can give up waiting: only with a timeout.
CanTimeOut(tf) == ~tf.isNone

\* run: the timeout passes first; subprocess.run kills the subprocess and
\* raises TimeoutExpired.
RunTimeout ==
    /\ pc = "run_wait"
    /\ proc.status = "running"
    /\ CanTimeOut(timeout_flt)
    /\ proc' = [proc EXCEPT !.status = "exited", !.returncode = -9,
                            !.killed = TRUE]
    /\ exc' = TimeoutExpired(cmd, timeout_flt.value)
    /\ pc' = "run_leave"
    /\ UNCHANGED <<executable, op, args, solver, timeout, timeout_flt, conf,
                   held, acquired, released, cmd, output, outcome,
                   required_version, found, text>>
    /\ UNCHANGED typeVars

\* run: the branch is left; with a solver the with block exits the
\* configuration, and an exception raised inside propagates to the caller.
RunLeave ==
    /\ pc = "run_leave"
    /\ IF ReleasesOnLeave(solver, exc)
       THEN /\ conf' = NoConf
            /\ held' = held - 1
            /\ released' = released + 1
       ELSE UNCHANGED <<conf, held, released>>
    /\ IF exc # NoExc
       THEN /\ outcome' = Raised(exc)
            /\ pc' = "done"
       ELSE /\ pc' = "run_check"
            /\ UNCHANGED outcome
    /\ UNCHANGED <<executable, op, args, solver, timeout, timeout_flt,
                   acquired, cmd, proc, output, exc, required_version, found,
                   text>>
    /\ UNCHANGED typeVars

\* run: the exit status is inspected; the output is returned to the caller of
\* run, which is the caller of the driver or one of the version methods.
RunCheck ==
    /\ pc = "run_check"
    /\ IF Failed(output)
       THEN /\ outcome' = Raised(parse_error(output.stderr))
            /\ pc' = "done"
       ELSE IF op = "run"
       THEN /\ outcome' = Returned("CompletedProcess")
            /\ pc' = "done"
       ELSE /\ pc' = IF op = "minizinc_version" THEN "mv_decode"
                     ELSE "cv_search"
            /\ UNCHANGED outcome
    /\ UNCHANGED <<executable, op, args, solver, timeout, timeout_flt, conf,
                   held, acquired, released, cmd, proc, output, exc,
                   required_version, found, text>>
    /\ UNCHANGED typeVars

\* ------------------------------------------------------------ versions
\* minizinc_version: .stdout.decode()
MvDecode ==
    /\ pc = "mv_decode"
    /\ IF Decodable(output.stdout)
       THEN /\ text' = Decode(output.stdout)
            /\ outcome' = Returned("str")
       ELSE /\ outcome' = Raised(Exc("UnicodeDecodeError"))
            /\ UNCHANGED text
    /\ pc' = "done"
    /\ UNCHANGED <<executable, op, args, solver, timeout, timeout_flt, conf,
                   held, acquired, released, cmd, proc, output, exc,
                   required_version, found>>
    /\ UNCHANGED typeVars

\* check_version: the pattern is searched and the groups converted;
\* match.groups() of None raises AttributeError.
CvSearch ==
    /\ pc = "cv_search"
    /\ LET match == Search(output.stdout)
       IN  IF match.matched
           THEN /\ found' = Found(match)
                /\ pc' = "cv_compare"
                /\ UNCHANGED outcome
           ELSE /\ outcome' = Raised(Exc("AttributeError"))
                /\ pc' = "done"
                /\ UNCHANGED found
    /\ UNCHANGED <<executable, op, args, solver, timeout, timeout_flt, conf,
                   held, acquired, released, cmd, proc, output, exc,
                   required_version, text>>
    /\ UNCHANGED typeVars

\* check_version: found is compared with the required version.
CvCompare ==
    /\ pc = "cv_compare"
    /\ outcome' = IF TupleLess(found, required_version)
                  THEN Raised(ConfigurationError(
                           VersionMessage(executable, found, required_version)))
                  ELSE Returned("None")
    /\ pc' = "done"
    /\ UNCHANGED <<executable, op, args, solver, timeout, timeout_flt, conf,
                   held, acquired, released, cmd, proc, output, exc,
                   required_version, found, text>>
    /\ UNCHANGED typeVars

\* ------------------------------------------------------------ create_process
\* create_process: with a solver, the configuration is entered.
CpStart ==
    /\ pc = "cp_start"
    /\ IF solver = NoSolver
       THEN UNCHANGED <<conf, held, acquired>>
       ELSE /\ conf' = configuration(solver)
            /\ held' = held + 1
            /\ acquired' = acquired + 1
    /\ pc' = "cp_build"
    /\ UNCHANGED <<executable, op, args, solver, timeout, timeout_flt,
                   released, cmd, proc, output, exc, outcome,
                   required_version, found, text>>
    /\ UNCHANGED typeVars

\* create_process: the arguments are converted (for the log line and for the
\* spawn); str(arg) of an unprintable argument raises.
CpBuild ==
    /\ pc = "cp_build"
    /\ IF \A i \in 1..Len(args) : Printable(args[i])
       THEN /\ cmd' = CreateProcessArgs(executable, solver, conf, args)
            /\ pc' = "cp_spawn"
            /\ UNCHANGED exc
       ELSE /\ exc' = Exc("Exception")
            /\ pc' = "cp_leave"
            /\ UNCHANGED cmd
    /\ UNCHANGED <<executable, op, args, solver, timeout, timeout_flt, conf,
                   held, acquired, released, proc, output, outcome,
                   required_version, found, text>>
    /\ UNCHANGED typeVars

\* create_process: await asyncio.create_subprocess_exec(...) starts the
\* subprocess, fails to (OSError), or the task is cancelled while suspended.
CpSpawn ==
    /\ pc = "cp_spawn"
    /\ \/ /\ proc' = [NoProc EXCEPT !.status = "running", !.args = cmd]
          /\ UNCHANGED exc
       \/ /\ exc' = Exc("OSError")
          /\ UNCHANGED proc
       \/ /\ exc' = Exc("CancelledError")
          /\ UNCHANGED proc
    /\ pc' = "cp_leave"
    /\ UNCHANGED <<executable, op, args, solver, timeout, timeout_flt, conf,
                   held, acquired, released, cmd, output, outcome,
                   required_version, found, text>>
    /\ UNCHANGED typeVars

\* create_process inspects the exit status the way run does.
CpResult_Checked(p) ==
    IF p.status = "exited" /\ p.returncode # 0
    THEN Raised(parse_error(p.stderr))
    ELSE Returned("Process")

\* How create_process ends once the branch is left without an exception:
\* return proc.
CpResult(p) == Returned("Process")

\* create_process: the branch is left (with a solver the with block exits the
\* configuration) and the handle is returned, or the exception propagates.
CpLeave ==
    /\ pc = "cp_leave"
    /\ IF ReleasesOnLeave(solver, exc)
       THEN /\ conf' = NoConf
            /\ held' = held - 1
            /\ released' = released + 1
       ELSE UNCHANGED <<conf, held, released>>
    /\ outcome' = IF exc # NoExc THEN Raised(exc) ELSE CpResult(proc)
    /\ pc' = "done"
    /\ UNCHANGED <<executable, op, args, solver, timeout, timeout_flt,
                   acquired, cmd, proc, output, exc, required_version, found,
                   text>>
    /\ UNCHANGED typeVars

\* The call has ended; the driver keeps nothing of it.
Return ==
    /\ pc = "done"
    /\ pc' = "idle"
    /\ op' = "none"
    /\ args' = <<>>
    /\ solver' = NoSolver
    /\ timeout' = NoTimeout
    /\ timeout_flt' = NoTimeoutFlt
    /\ acquired' = 0
    /\ released' = 0
    /\ cmd' = <<>>
    /\ proc' = NoProc
    /\ output' = NoOutput
    /\ exc' = NoExc
    /\ outcome' = NoOutcome
    /\ required_version' = <<>>
    /\ found' = <<>>
    /\ text' = ""
    /\ UNCHANGED <<executable, conf, held>>
    /\ UNCHANGED typeVars

Next ==
    \/ \E a \in ArgLists, s \in Solvers \cup {NoSolver}, t \in Timeouts :
           CallRun(a, s, t)
    \/ \E a \in ArgLists, s \in Solvers \cup {NoSolver} :
           CallCreateProcess(a, s)
    \/ CallMinizincVersion
    \/ \E r \in RequiredVersions : CallCheckVersion(r)
    \/ RunStart
    \/ RunBuild
    \/ RunSpawn
    \/ \E rc \in ExitCodes, out \in Outputs, err \in Errors :
           ProcExit(rc, out, err)
    \/ RunWaitReturn
    \/ RunTimeout
    \/ RunLeave
    \/ RunCheck
    \/ MvDecode
    \/ CvSearch
    \/ CvCompare
    \/ CpStart
    \/ CpBuild
    \/ CpSpawn
    \/ CpLeave
    \/ Return

Spec == Init /\ [][Next]_vars

\* ============================================================== to_python_type
\* The Python type of a base type name; a name that is not known counts as int.
BaseType(basetype) ==
    CASE basetype = "bool" -> Class("bool")
      [] basetype = "float" -> Class("float")
      [] basetype = "int" -> Class("int")
      [] OTHER -> Class("int")

\* Whether the base type name is one to_python_type knows.
KnownBase(basetype) == basetype \in {"bool", "float", "int"}

\* The type of a set of pytype.
SetType(t) ==
    IF t = Class("int") THEN UnionOf(SetOf(Class("int")), Class("range"))
    ELSE SetOf(t)

\* while dim > 1
LoopCondition_OffByOne(d) == d > 1

\* while dim >= 1
LoopCondition(d) == d >= 1

\* A type definition is given to to_python_type.
TypeInit ==
    /\ DriverInit
    /\ mzn_type \in TypeDefs
    /\ pytype = NoType
    /\ dim = 0
    /\ warned = 0
    /\ tpc = "base"

\* to_python_type: the base type is chosen, with a warning for an unknown one.
TptBase ==
    /\ tpc = "base"
    /\ pytype' = BaseType(mzn_type["type"])
    /\ warned' = IF KnownBase(mzn_type["type"]) THEN warned ELSE warned + 1
    /\ tpc' = "set"
    /\ UNCHANGED <<mzn_type, dim>>
    /\ UNCHANGED driverVars

\* to_python_type: a set type wraps the base type; dim is read.
TptSet ==
    /\ tpc = "set"
    /\ pytype' = IF Get(mzn_type, "set", FALSE) THEN SetType(pytype) ELSE pytype
    /\ dim' = Get(mzn_type, "dim", 0)
    /\ tpc' = "loop"
    /\ UNCHANGED <<mzn_type, warned>>
    /\ UNCHANGED driverVars

\* to_python_type: one iteration of the loop adds a List layer.
TptLoop ==
    /\ tpc = "loop"
    /\ LoopCondition(dim)
    /\ pytype' = ListOf(pytype)
    /\ dim' = dim - 1
    /\ UNCHANGED <<mzn_type, warned, tpc>>
    /\ UNCHANGED driverVars

\* to_python_type: the loop ends and pytype is returned.
TptReturn ==
    /\ tpc = "loop"
    /\ ~LoopCondition(dim)
    /\ tpc' = "done"
    /\ UNCHANGED <<mzn_type, pytype, dim, warned>>
    /\ UNCHANGED driverVars

TypeNext ==
    \/ TptBase
    \/ TptSet
    \/ TptLoop
    \/ TptReturn

\* The interpreter runs the function to its end.
TypeSpec == TypeInit /\ [][TypeNext]_vars /\ WF_vars(TypeNext)

\* ============================================================== properties
\* The text of each value this model passes to str(), written out.
ExpectedText(v) ==
    CASE v = StrVal("model.mzn") -> "model.mzn"
      [] v = StrVal("--version") -> "--version"
      [] v = IntVal(10) -> "10"
      [] v = PathVal(<<"usr", "bin", "minizinc">>) -> "/usr/bin/minizinc"

ExpectedTexts(as) == [i \in 1..Len(as) |-> ExpectedText(as[i])]

\* C1: the command of every spawned subprocess, of run and of create_process
\* alike, is the executable, then "--solver" and the configuration token when
\* a solver is given, then "--allow-multiple-assignments", then str(a) of
\* each argument in order.
C1_CommandExact ==
    proc.status # "none" =>
        proc.args =
            IF solver = NoSolver
            THEN <<ExpectedText(executable), "--allow-multiple-assignments">>
                 \o ExpectedTexts(args)
            ELSE <<ExpectedText(executable), "--solver", configuration(solver),
                   "--allow-multiple-assignments">> \o ExpectedTexts(args)

\* create_process has spawned a subprocess for a solver and two different
\* arguments, one of them not a str.
C1_Witness ==
    /\ op = "create_process"
    /\ solver = [id |-> "chuffed"]
    /\ args = <<IntVal(10), StrVal("model.mzn")>>
    /\ proc.status = "running"

\* C2: when the subprocess of run completes with an exit status other than 0,
\* run raises parse_error of the stderr the subprocess wrote and returns
\* nothing; run returns a result only for exit status 0.
C2_NonZeroExitRaises ==
    (op = "run" /\ pc = "done") =>
        /\ (proc.status = "exited" /\ ~proc.killed /\ proc.returncode # 0) =>
               /\ outcome.kind = "raise"
               /\ outcome.exc.type = "MiniZincError"
               /\ outcome.exc.stderr = proc.stderr
        /\ outcome.kind = "return" =>
               /\ proc.status = "exited"
               /\ proc.returncode = 0
               /\ output = [isNone |-> FALSE, args |-> proc.args,
                            returncode |-> 0, stdout |-> proc.stdout,
                            stderr |-> proc.stderr]

\* run with a solver has ended after its subprocess died by a signal, having
\* written to stderr.
C2_Witness ==
    /\ op = "run"
    /\ pc = "done"
    /\ solver # NoSolver
    /\ proc.returncode = -11
    /\ proc.stderr # <<>>
    /\ outcome.kind = "raise"

\* C3: when the subprocess of run does not finish within the timeout, run
\* raises the TimeoutExpired of subprocess.run as it is, with no result and
\* the exit status not inspected; without a timeout run raises no timeout
\* error and ends only once the subprocess has exited.
C3_TimeoutPropagates ==
    op = "run" =>
        /\ (pc = "done" /\ proc.killed) =>
               /\ outcome = Raised([type |-> "TimeoutExpired", msg |-> <<>>,
                                    stderr |-> <<>>, cmd |-> proc.args,
                                    timeout |-> timeout.seconds])
               /\ output.isNone
        /\ pc = "run_check" => ~proc.killed
        /\ timeout.isNone =>
               /\ ~proc.killed
               /\ exc.type # "TimeoutExpired"
               /\ outcome.exc.type # "TimeoutExpired"
               /\ (pc \in {"run_leave", "run_check", "done"}
                   /\ proc.status # "none") => proc.status = "exited"

\* run with a solver and a timeout has ended because the timeout passed.
C3_Witness ==
    /\ op = "run"
    /\ pc = "done"
    /\ solver # NoSolver
    /\ ~timeout.isNone
    /\ proc.killed
    /\ outcome.exc.type = "TimeoutExpired"

\* C4: a call of run or create_process with a solver enters the solver
\* configuration once and has exited it when the call returns or raises,
\* whatever the way it ends; between calls no configuration is held.
C4_ConfigurationReleased ==
    /\ acquired <= 1
    /\ released <= acquired
    /\ pc \in {"done", "idle"} => held = 0 /\ conf = NoConf
    /\ (pc = "done" /\ op \in {"run", "create_process"}
        /\ solver # NoSolver) => acquired = 1 /\ released = 1

\* run with a solver has raised because the command could not be built.
C4_Witness ==
    /\ op = "run"
    /\ pc = "done"
    /\ solver # NoSolver
    /\ proc.status = "none"
    /\ outcome.kind = "raise"
    /\ outcome.exc.type = "Exception"

\* C5 as stated: the configuration is exited right after the argument list
\* is built, so it is never held while run waits for the subprocess nor once
\* the subprocess has exited.
C5_ReleasedBeforeExit ==
    (solver # NoSolver /\ (pc = "run_wait" \/ proc.status = "exited")) =>
        held = 0

\* C5, amended: with a solver, run holds the configuration from before cmd is
\* built until subprocess.run has returned or raised, hence while the
\* subprocess runs and when it exits, and has exited it when the exit status
\* is inspected; create_process holds it until the spawn has returned or
\* raised and has exited it when the handle is returned.
C5_HeldAcrossSubprocess ==
    solver # NoSolver =>
        /\ pc \in {"run_build", "run_spawn", "run_wait", "run_leave",
                   "cp_build", "cp_spawn", "cp_leave"} =>
               held = 1 /\ conf = configuration(solver)
        /\ pc \in {"run_check", "done"} => held = 0 /\ conf = NoConf

\* The subprocess of run has exited while run, still inside the with block,
\* holds the configuration.
C5_Witness ==
    /\ op = "run"
    /\ solver # NoSolver
    /\ pc = "run_wait"
    /\ proc.status = "exited"
    /\ held = 1

\* found < required, written out for triples.
TripleLess(f, r) ==
    \/ f[1] < r[1]
    \/ f[1] = r[1] /\ f[2] < r[2]
    \/ f[1] = r[1] /\ f[2] = r[2] /\ f[3] < r[3]

\* "(major, minor, patch)"
TripleText(t) ==
    "(" \o IntStr(t[1]) \o ", " \o IntStr(t[2]) \o ", " \o IntStr(t[3]) \o ")"

Contains(msg, piece) == \E i \in 1..Len(msg) : msg[i] = piece

\* C6: with the version triple parsed, check_version raises
\* ConfigurationError exactly when the triple is lexicographically less than
\* the required one, and returns normally otherwise; the message of the error
\* contains the executable path, the found version and the required version.
C6_VersionComparison ==
    (op = "check_version" /\ pc = "done" /\ found # <<>>) =>
        /\ Len(found) = 3
        /\ IF TripleLess(found, required_version)
           THEN /\ outcome.kind = "raise"
                /\ outcome.exc.type = "ConfigurationError"
                /\ Contains(outcome.exc.msg, ExpectedText(executable))
                /\ Contains(outcome.exc.msg, TripleText(found))
                /\ Contains(outcome.exc.msg, TripleText(required_version))
           ELSE outcome = Returned("None")

\* check_version has found 2.5.0 where 2.6.0 is required and has raised.
C6_Witness ==
    /\ op = "check_version"
    /\ pc = "done"
    /\ found = <<2, 5, 0>>
    /\ required_version = <<2, 6, 0>>
    /\ outcome.kind = "raise"
    /\ outcome.exc.type = "ConfigurationError"

\* Whether a call of one of the two version methods is in progress.
VersionQuery == op \in {"minizinc_version", "check_version"}

\* C7 as stated: the command the version methods spawn is exactly
\* <executable> --version.
C7_BareVersionCommand ==
    (VersionQuery /\ proc.status # "none") =>
        proc.args = <<ExpectedText(executable), "--version">>

\* C7, amended: the version methods run the executable synchronously with the
\* single argument --version, no solver and no timeout, and the command
\* spawned is <executable> --allow-multiple-assignments --version;
\* minizinc_version returns the decoded stdout of that invocation when it
\* exits with status 0 and its stdout is valid UTF-8.
C7_VersionCommand ==
    VersionQuery =>
        /\ solver = NoSolver /\ timeout.isNone /\ held = 0
        /\ pc \notin {"idle", "run_start"} => timeout_flt.isNone
        /\ proc.status # "none" =>
               proc.args = <<ExpectedText(executable),
                             "--allow-multiple-assignments", "--version">>
        /\ pc \in {"run_leave", "run_check", "mv_decode", "cv_search",
                   "cv_compare", "done"} => proc.status # "running"
        /\ (op = "minizinc_version" /\ pc = "done"
            /\ proc.status = "exited" /\ proc.returncode = 0
            /\ \A i \in 1..Len(proc.stdout) : proc.stdout[i] # 255) =>
               /\ outcome = Returned("str")
               /\ text = Decode(proc.stdout)
               /\ proc.stdout = <<50, 46, 54, 46, 48>> => text = "2.6.0"
        /\ (op = "minizinc_version" /\ outcome.kind = "return") =>
               proc.returncode = 0 /\ proc.status = "exited"

\* minizinc_version has returned the text the executable printed.
C7_Witness ==
    /\ op = "minizinc_version"
    /\ pc = "done"
    /\ outcome = Returned("str")
    /\ proc.args = <<"/usr/bin/minizinc", "--allow-multiple-assignments",
                   "--version">>
    /\ text = "version 2.6.1"

\* C8: create_process returns the handle once the subprocess is spawned,
\* whether the subprocess is still running or has exited with any status; it
\* captures no output, raises no parsed error and no timeout error.
C8_HandleReturnedAtOnce ==
    op = "create_process" =>
        /\ output.isNone
        /\ timeout_flt.isNone /\ ~proc.killed
        /\ outcome.exc.type \notin {"MiniZincError", "TimeoutExpired"}
        /\ (pc = "cp_leave" /\ proc.status # "none") => ENABLED CpLeave
        /\ (pc = "done" /\ proc.status # "none") =>
               outcome = Returned("Process")

\* create_process has returned the handle of a subprocess that is still
\* running.
C8_Witness ==
    /\ op = "create_process"
    /\ pc = "done"
    /\ proc.status = "running"
    /\ outcome = Returned("Process")

\* create_process has returned the handle of a subprocess that had already
\* exited with a status other than 0.
C8_WitnessExited ==
    /\ op = "create_process"
    /\ pc = "done"
    /\ proc.status = "exited"
    /\ proc.returncode # 0
    /\ outcome = Returned("Process")

\* The type the claim expects for a type definition: the base type, the set
\* wrapper around it, and d List layers around that.
ExpectedBase(t) ==
    IF t["type"] \in {"bool", "float"} THEN Class(t["type"]) ELSE Class("int")

ExpectedInner(t) ==
    IF "set" \in DOMAIN t /\ t["set"]
    THEN IF ExpectedBase(t) = Class("int")
         THEN UnionOf(SetOf(Class("int")), Class("range"))
         ELSE SetOf(ExpectedBase(t))
    ELSE ExpectedBase(t)

RECURSIVE Nested(_, _)
Nested(d, t) == IF d = 0 THEN t ELSE ListOf(Nested(d - 1, t))

ExpectedDim(t) == IF "dim" \in DOMAIN t THEN t["dim"] ELSE 0

\* C9: to_python_type ends for every type definition, and returns the base
\* type (int, with one warning, for an unknown name), inside the set wrapper
\* when "set" is true, inside as many List layers as "dim" says.
C9_TypeConversion ==
    /\ [](tpc = "done" =>
              /\ pytype = Nested(ExpectedDim(mzn_type), ExpectedInner(mzn_type))
              /\ warned = IF mzn_type["type"] \in {"bool", "float", "int"}
                          THEN 0 ELSE 1)
    /\ <>(tpc = "done")

\* to_python_type has returned List[List[Union[Set[int], range]]] for a
\* two-dimensional array of sets of int.
C9_Witness ==
    /\ tpc = "done"
    /\ mzn_type = [type |-> "int", set |-> TRUE, dim |-> 2]
    /\ pytype = ListOf(ListOf(UnionOf(SetOf(Class("int")), Class("range"))))

\* The places of s where b"version ", digits, ".", digits, ".", digits occur,
\* each with the lengths of the three runs of digits, the last one as long as
\* it can be.
Occurrences(s) ==
    LET n == Len(s)
        p == Len(VersionPrefix)
        Digits(a, k) == \A j \in a..(a + k - 1) : s[j] \in 48..57
        \* the lengths of a run of digits at a that a "." follows
        Dotted(a) == {k \in 1..(n - a) : Digits(a, k) /\ s[a + k] = 46}
        \* the lengths of a run of digits at a that no digit follows
        Closed(a) == {k \in 1..(n - a + 1) :
                         /\ Digits(a, k)
                         /\ a + k <= n => s[a + k] \notin 48..57}
        Starts == {i \in 1..(n - p) :
                      SubSeq(s, i, i + p - 1) =
                          <<118, 101, 114, 115, 105, 111, 110, 32>>}
    IN  UNION { UNION { { <<i, k1, k2, k3>> :
                          k3 \in Closed(i + p + k1 + 1 + k2 + 1) } :
                        k2 \in Dotted(i + p + k1 + 1) } :
                <<i, k1>> \in {x \in Starts \X (1..n) : x[2] \in Dotted(x[1] + p)} }

RECURSIVE ValueOf(_, _)
\* The number a run of digits denotes, read from the left.
ValueOf(ds, acc) ==
    IF ds = <<>> THEN acc ELSE ValueOf(Tail(ds), 10 * acc + (Head(ds) - 48))

\* The triple of the leftmost occurrence.
FirstTriple(s) ==
    LET o == CHOOSE x \in Occurrences(s) :
                 \A y \in Occurrences(s) : x[1] <= y[1]
        a == o[1] + Len(VersionPrefix)
        b == a + o[2] + 1
        c == b + o[3] + 1
    IN  <<ValueOf(SubSeq(s, a, a + o[2] - 1), 0),
          ValueOf(SubSeq(s, b, b + o[3] - 1), 0),
          ValueOf(SubSeq(s, c, c + o[4] - 1), 0)>>

\* C10: when the version query exits with status 0 and its stdout holds no
\* match of the pattern, check_version ends with an AttributeError, which is
\* no ConfigurationError, and never returns; when there is a match, the
\* triple is the one of the leftmost match.
C10_UnmatchedVersionFails ==
    (op = "check_version" /\ pc = "done" /\ proc.status = "exited"
     /\ proc.returncode = 0) =>
        IF Occurrences(proc.stdout) = {}
        THEN outcome = Raised(Exc("AttributeError")) /\ found = <<>>
        ELSE /\ found = FirstTriple(proc.stdout)
             /\ outcome.exc.type # "AttributeError"

\* check_version has failed on an output that names a version without the
\* word "version".
C10_Witness ==
    /\ op = "check_version"
    /\ pc = "done"
    /\ proc.returncode = 0
    /\ proc.stdout = <<50, 46, 54, 46, 48>>
    /\ outcome.kind = "raise"
    /\ outcome.exc.type = "AttributeError"

\* check_version has read the version of the first of two matches.
C10_WitnessFirst ==
    /\ op = "check_version"
    /\ pc = "done"
    /\ Cardinality(Occurrences(proc.stdout)) = 2
    /\ found = <<2, 5, 0>>

====
